---------------------------- MODULE Spec2Model ----------------------------
(***************************************************************************)
(* Model of the gemini-watermark-remover web application:                  *)
(*   - the batch scheduler of the page script (handleFiles, reset,         *)
(*     processSingle*, processQueue, downloadAll), and                     *)
(*   - the video pipeline of core/videoProcessor.js                        *)
(*     (removeWatermarkFromVideo with its frame loop, detectFPS,           *)
(*     getSupportedMimeType), and                                          *)
(*   - the object URLs both create and revoke.                             *)
(*                                                                         *)
(* JavaScript runs the handlers on one thread: an action of the model is   *)
(* one run-to-completion step, from the event (or promise settlement) that *)
(* resumes the code up to its next await.                                  *)
(*                                                                         *)
(* Time is counted in ticks of 1/90 s: a file carries its duration and     *)
(* the pace of the frames detectFPS sees of it as whole numbers of ticks,  *)
(* so that every quotient of the frame loop is an exact rational.          *)
(***************************************************************************)
EXTENDS Integers, Sequences, FiniteSets, TLC

VARIABLES
    script,          \* the user's remaining gestures (file drops, resets), in order
    imageQueue,      \* global imageQueue: the job ids of the current batch
    item,            \* every job object created so far, by id (closures keep old ones alive)
    processedCount,  \* global processedCount
    cards,           \* ids of the jobs whose card is in the DOM (children of imageList)
    pq,              \* the processQueue() invocations started so far
    run,             \* the asynchronous tasks started so far: where the work of each stands
    archive,         \* entries of the zip built by the last downloadAll(): file name -> job id
    browser          \* what the runtime offers: MediaRecorder, its mime types, requestVideoFrameCallback

vars == <<script, imageQueue, item, processedCount, cards, pq, run, archive, browser>>

---------------------------------------------------------------------------
(* Bounds *)

MaxDur == 20         \* longest video duration, in ticks
MaxIvl == 2          \* longest frame interval detectFPS measures, in ticks

---------------------------------------------------------------------------
(* Helpers *)

Min(a, b) == IF a <= b THEN a ELSE b

Range(s) == {s[k] : k \in 1..Len(s)}

---------------------------------------------------------------------------
(* Files.  A name is a sequence of tokens: "." is a dot, any other token   *)
(* is a run of characters without a dot.                                   *)

VideoExts == {"mp4", "webm", "mov"}

\* file.name.match(/\.(mp4|webm|mov)$/i)
HasVideoExt(name) ==
    /\ Len(name) >= 2
    /\ name[Len(name)] \in VideoExts
    /\ name[Len(name) - 1] = "."

\* the filter of handleFiles (sizes are within the limits)
ValidFile(file) ==
    \/ file.type = "image"
    \/ file.type = "video"
    \/ HasVideoExt(file.name)

\* isVideo of the job object built by handleFiles
IsVideo(file) == file.type = "video" \/ HasVideoExt(file.name)

\* item.name.replace(/\.[^.]+$/, ''): the last dot and what follows it are
\* cut, when at least one character follows that dot.
StripExt(name) ==
    LET dots == {k \in 1..Len(name) : name[k] = "."}
    IN  IF dots = {} THEN name
        ELSE LET last == CHOOSE k \in dots : \A m \in dots : m <= k
             IN  IF last = Len(name) THEN name ELSE SubSeq(name, 1, last - 1)

\* `unwatermarked_${base}.${ext}` of downloadMedia and downloadAll
OutputName(it) ==
    <<"unwatermarked_">> \o StripExt(it.file.name)
        \o <<".", IF it.isVideo THEN "webm" ELSE "png">>

---------------------------------------------------------------------------
(* Job objects and tasks *)

\* one element of imageQueue, as handleFiles builds it.  An object URL is
\* "null" until it is created, then "live" until it is revoked.  statusLog
\* is the sequence of values item.status has been given, and discarded tells
\* which handler took the job out of imageQueue.
NewItem(file) ==
    [file |-> file, isVideo |-> IsVideo(file), status |-> "pending",
     statusLog |-> <<"pending">>, originalImg |-> FALSE, processedBlob |-> FALSE,
     originalUrl |-> "null", processedUrl |-> "null", discarded |-> "no"]

\* URL.revokeObjectURL(url) when the field holds one
Revoke(url) == IF url = "live" THEN "revoked" ELSE url

\* item.processedBlob = blob; item.processedUrl = URL.createObjectURL(blob)
WithOutput(it) == [it EXCEPT !.processedBlob = TRUE, !.processedUrl = "live"]

SetStatus(it, s) == [it EXCEPT !.status = s, !.statusLog = Append(@, s)]

\* a JavaScript number as onProgress receives it: a whole number or NaN
Num(n) == [isNaN |-> FALSE, n |-> n]
NaN == [isNaN |-> TRUE, n |-> 0]

\* a frame rate, in frames per tick, as the quotient num / den
Rate(num, den) == [num |-> num, den |-> den]

\* the promise of detectFPS is not resolved yet
Undecided == Rate(0, 0)

\* the locals of detectFPS (lines 123-126) before it is called: frames,
\* startTime (0 for null), timeout ("none", "set", "cleared" or "fired"),
\* whether cb is registered with the video, and the value the promise was
\* resolved with.
NoFPS ==
    [frames |-> 0, startTime |-> 0, timeout |-> "none", cb |-> FALSE,
     result |-> Undecided]

\* the asynchronous work on one job: caller is 0 for processSingle and the
\* index of the processQueue invocation otherwise.
NewTask(id, caller, pc) ==
    [job |-> id, caller |-> caller, pc |-> pc,
     currentTime |-> 0,      \* loop variable currentTime
     seek |-> -1,            \* video.currentTime as last set by seekTo
     frames |-> 0,           \* frames handed to the encoder (requestFrame)
     calls |-> 0,            \* calls of engine.removeWatermarkFromImage
     pcts |-> <<>>,          \* the values given to onProgress, in order
     promise |-> "pending",  \* the promise removeWatermarkFromVideo returned
     recorder |-> "inactive",
     url |-> "none",         \* the object URL of line 26: "none", "live" or "revoked"
     mimeType |-> "none",    \* what getSupportedMimeType() returned
     playing |-> FALSE,      \* the video element plays (play() called, never paused)
     fps |-> NoFPS,          \* the locals of detectFPS
     frameInterval |-> -1,   \* frameInterval, in ticks, once detectFPS has returned
     seeking |-> 0,          \* seeks started whose 'seeked' has not fired
     seeks |-> <<>>,         \* the times sought, in order
     submitted |-> <<>>]     \* video.currentTime of the frames given to the encoder, in order

\* removeWatermarkFromVideo is called (lines 15-32): without MediaRecorder
\* it throws, and the promise it returns is rejected at once; otherwise the
\* object URL of the file is created and the video element loads it.
VideoTask(id, caller) ==
    LET t == NewTask(id, caller, "loadedmetadata")
    IN  IF browser.mediaRecorder
        THEN [t EXCEPT !.url = "live"]
        ELSE [t EXCEPT !.pc = "end", !.promise = "rejected"]

\* engine.removeWatermarkFromImage(item.originalImg) needs a decoded image:
\* with null it fails.
EngineAccepts(img) == img

---------------------------------------------------------------------------
(* The batch scheduler: processQueue.  The operators below work on a       *)
(* record st = [item, run, pq, count] of the globals they change, so that  *)
(* a handler that runs on without an await between two of them is one      *)
(* action.                                                                 *)

concurrency == 3

\* lines 320-339 up to the await: one task of a chunk, for job id, started
\* by invocation p.  The new task, if one stays in flight, is the last of
\* st.run; a call of removeWatermarkFromVideo that is rejected at once
\* leaves one that has ended, and the catch block (368-372) has run.
Claim(st, p, id) ==
    IF st.item[id].status # "pending" THEN st
    ELSE LET it == SetStatus(st.item[id], "processing")
         IN  IF it.isVideo
             THEN LET t == VideoTask(id, p)
                  IN  [st EXCEPT !.item[id] = IF t.promise = "rejected"
                                              THEN SetStatus(it, "error") ELSE it,
                                 !.run = Append(@, t)]
             ELSE IF EngineAccepts(it.originalImg)
             THEN [st EXCEPT !.item[id] = it,
                             !.run = Append(@, NewTask(id, p, "removeWatermarkFromImage"))]
             ELSE [st EXCEPT !.item[id] = SetStatus(it, "error")]

\* imageQueue.slice(i, i + concurrency).map(...): the tasks of the chunk
\* are started in order.
RECURSIVE ClaimAll(_, _, _)
ClaimAll(st, p, ids) ==
    IF ids = <<>> THEN st ELSE ClaimAll(Claim(st, p, Head(ids)), p, Tail(ids))

\* the for loop of processQueue (lines 318-378) from its test on, with i in
\* st.pq[p].i, over the global imageQueue as it is now (q): a chunk none of
\* whose tasks awaits anything is passed without a break.
RECURSIVE Advance(_, _, _)
Advance(q, st, p) ==
    LET i == st.pq[p].i
    IN  IF i >= Len(q) THEN [st EXCEPT !.pq[p].pc = "done"]
        ELSE LET chunk == SubSeq(q, i + 1, Min(i + concurrency, Len(q)))
                 st2 == ClaimAll(st, p, chunk)
                 started == {w \in (Len(st.run) + 1)..Len(st2.run) :
                                st2.run[w].pc # "end"}
             IN  IF started = {}
                 THEN Advance(q, [st2 EXCEPT !.pq[p].i = i + concurrency], p)
                 ELSE [st2 EXCEPT !.pq[p].pc = "chunk", !.pq[p].wait = started]

\* lines 330-337 and 339-346, then 362-372: the rest of a chunk task once
\* its transform or video promise has settled (ok: it resolved).  An image
\* job looks its card up before it is marked completed (344), every job
\* after it (362-363); without the card the lookup is null and the catch
\* block runs.
TaskSettled(st, w, ok, dom) ==
    LET id == st.run[w].job
        it == st.item[id]
    IN  IF ~ok THEN [st EXCEPT !.item[id] = SetStatus(it, "error")]
        ELSE IF id \in dom
        THEN [st EXCEPT !.item[id] = SetStatus(WithOutput(it), "completed"),
                        !.count = @ + 1]
        ELSE IF it.isVideo
        THEN [st EXCEPT !.item[id] =
                 SetStatus(SetStatus(WithOutput(it), "completed"), "error")]
        ELSE [st EXCEPT !.item[id] = SetStatus(WithOutput(it), "error")]

\* what the caller of task w does when the promise it awaits settles:
\* processSingleImage (198-221) and processSingleVideo (246-266) keep the
\* blob; a chunk task of processQueue ends, and with the last one of the
\* chunk Promise.all resolves and the loop goes on.
Settled(q, st, w, ok, dom) ==
    LET p == st.run[w].caller
        id == st.run[w].job
    IN  IF p = 0
        THEN (IF ok THEN [st EXCEPT !.item[id] = WithOutput(@)] ELSE st)
        ELSE LET st1 == TaskSettled(st, w, ok, dom)
                 st2 == [st1 EXCEPT !.pq[p].wait = @ \ {w}]
             IN  IF st2.pq[p].wait = {}
                 THEN Advance(q, [st2 EXCEPT !.pq[p].i = @ + concurrency], p)
                 ELSE st2

Globals == [item |-> item, run |-> run, pq |-> pq, count |-> processedCount]

Becomes(st) ==
    /\ item' = st.item
    /\ run' = st.run
    /\ pq' = st.pq
    /\ processedCount' = st.count

---------------------------------------------------------------------------
(* User gestures *)

\* loadImage(file) of utils.js resolves with the decoded image, and rejects
\* when the content does not decode.
LoadImageResolves(file) == file.decodable

\* handleFiles(files), lines 119-164, with what processSingle (166-176,
\* 178-180, 224-246) or processQueue (292-315, and the loop when no image
\* is left to load) does before its first await.  The object URLs of the
\* queue that is replaced are revoked (132-135); a video gets its
\* originalUrl on line 226 or 295.  What loadImage makes of img.src is not
\* followed: originalUrl stays "null" for an image.
HandleFiles ==
    /\ script # <<>>
    /\ Head(script).op = "files"
    /\ script' = Tail(script)
    /\ UNCHANGED <<archive, browser>>
    /\ LET validFiles == SelectSeq(Head(script).files, ValidFile)
           n == Len(item)
           k == Len(validFiles)
           q == [j \in 1..k |-> n + j]
           old == [id \in 1..n |->
                     IF id \in Range(imageQueue)
                     THEN [item[id] EXCEPT !.originalUrl = Revoke(@),
                                           !.processedUrl = Revoke(@),
                                           !.discarded = "handleFiles"]
                     ELSE item[id]]
           new == [j \in 1..k |->
                     LET it == NewItem(validFiles[j])
                     IN  IF it.isVideo THEN [it EXCEPT !.originalUrl = "live"] ELSE it]
           st == [Globals EXCEPT !.item = old \o new, !.count = 0]
       IN  IF k = 0 THEN UNCHANGED <<imageQueue, item, processedCount, cards, pq, run>>
           ELSE IF k = 1
           THEN /\ imageQueue' = q
                /\ cards' = cards
                /\ Becomes([st EXCEPT !.run = Append(@,
                       IF st.item[n + 1].isVideo
                       THEN VideoTask(n + 1, 0)
                       ELSE NewTask(n + 1, 0, "loadImage"))])
           ELSE LET p == Len(pq) + 1
                    loading == {id \in Range(q) : ~st.item[id].isVideo}
                    st1 == [st EXCEPT !.pq = Append(@,
                              [pc |-> "preload", i |-> 0, loading |-> loading, wait |-> {}])]
                IN  /\ imageQueue' = q
                    /\ cards' = Range(q)
                    /\ Becomes(IF loading = {} THEN Advance(q, st1, p) ELSE st1)

\* reset(), lines 100-113: the queue is emptied and the counter zeroed; no
\* object URL is revoked and the cards stay in imageList.
Reset ==
    /\ script # <<>>
    /\ Head(script).op = "reset"
    /\ script' = Tail(script)
    /\ imageQueue' = <<>>
    /\ processedCount' = 0
    /\ item' = [id \in 1..Len(item) |->
                  IF id \in Range(imageQueue)
                  THEN [item[id] EXCEPT !.discarded = "reset"]
                  ELSE item[id]]
    /\ UNCHANGED <<cards, pq, run, archive, browser>>

\* zip.file(name, data) for each completed job in queue order: an entry of
\* the same name is replaced.
RECURSIVE ZipFiles(_, _)
ZipFiles(zip, ids) ==
    IF ids = <<>> THEN zip
    ELSE LET name == OutputName(item[Head(ids)])
         IN  ZipFiles([f \in DOMAIN zip \cup {name} |->
                          IF f = name THEN Head(ids) ELSE zip[f]],
                      Tail(ids))

IsCompleted(id) == item[id].status = "completed"

\* downloadAll(), lines 404-420
DownloadAll ==
    /\ script # <<>>
    /\ Head(script).op = "downloadAll"
    /\ script' = Tail(script)
    /\ LET completed == SelectSeq(imageQueue, IsCompleted)
       IN  archive' = IF completed = <<>> THEN archive ELSE ZipFiles(<<>>, completed)
    /\ UNCHANGED <<imageQueue, item, processedCount, cards, pq, run, browser>>

---------------------------------------------------------------------------
(* Images *)

\* the preload of processQueue, lines 309-313, for one image of the batch:
\* loadImage settles.  A rejection, or the null card of line 312, rejects
\* the Promise.all of line 293 and with it processQueue; when the last
\* image is in, the loop starts.
QueueImageLoaded(p, id) ==
    /\ id \in pq[p].loading
    /\ LET ok == LoadImageResolves(item[id].file)
           st == [Globals EXCEPT !.item[id].originalImg = (@ \/ ok),
                                 !.pq[p].loading = @ \ {id}]
       IN  Becomes(
             IF ~(ok /\ id \in cards)
             THEN [st EXCEPT !.pq[p].pc = "failed"]
             ELSE IF st.pq[p].loading = {} /\ st.pq[p].pc = "preload"
             THEN Advance(imageQueue, st, p)
             ELSE st)
    /\ UNCHANGED <<script, imageQueue, cards, archive, browser>>

\* processSingleImage, lines 180-198: loadImage settles
SingleImageLoaded(w) ==
    /\ run[w].pc = "loadImage"
    /\ LET id == run[w].job
           ok == LoadImageResolves(item[id].file)
       IN  /\ item' = [item EXCEPT ![id].originalImg = (@ \/ ok)]
           /\ run' = [run EXCEPT ![w].pc =
                         IF ok THEN "removeWatermarkFromImage" ELSE "end"]
    /\ UNCHANGED <<script, imageQueue, processedCount, cards, pq, archive, browser>>

\* engine.removeWatermarkFromImage(img) fails on the content it is told to
\* fail on
TransformOk(file, call) == file.failAt # call

\* engine.removeWatermarkFromImage and toBlob settle for an image job
\* (198-200, 339-341)
ImageTransformed(w) ==
    /\ run[w].pc = "removeWatermarkFromImage"
    /\ Becomes(Settled(imageQueue, [Globals EXCEPT !.run[w].pc = "end"], w,
                       TransformOk(item[run[w].job].file, 1), cards))
    /\ UNCHANGED <<script, imageQueue, cards, archive, browser>>

---------------------------------------------------------------------------
(* The video pipeline: removeWatermarkFromVideo, videoProcessor.js 15-98 *)

\* 1/30 s, the frame interval of the default rate 30, is DefaultIvl ticks:
\* a tick is 1/90 s.
DefaultIvl == 3

\* the rate 30 that detectFPS falls back to
Fps30 == Rate(1, DefaultIvl)

\* the types getSupportedMimeType tries, in its order
CandidateTypes ==
    <<"video/webm;codecs=vp9", "video/webm;codecs=vp8", "video/webm", "video/mp4">>

\* getSupportedMimeType(), lines 153-164, where MediaRecorder.isTypeSupported
\* holds for the types in supported: the first candidate that is supported,
\* or the empty string
GetSupportedMimeType(supported) ==
    LET ok == {k \in 1..Len(CandidateTypes) : CandidateTypes[k] \in supported}
    IN  IF ok = {} THEN ""
        ELSE CandidateTypes[CHOOSE k \in ok : \A m \in ok : k <= m]

\* lines 71-72: fps = result || 30 (0 and NaN are falsy), frameInterval =
\* 1 / fps.  The quotient is whole for the rates the model measures; the
\* rate 10 / 0 is Infinity, which is not falsy, and 1 / Infinity is 0.
FrameInterval(result) ==
    LET fps == IF result.num = 0 THEN Fps30 ELSE result
    IN  fps.den \div fps.num

\* Math.min(100, Math.round((currentTime / duration) * 100)), line 86:
\* Math.round rounds halves up; 0 / 0 is NaN, and so is all that follows.
Progress(currentTime, duration) ==
    IF duration = 0 THEN NaN
    ELSE Num(Min(100, (200 * currentTime + duration) \div (2 * duration)))

\* the test of the for loop, line 75, and what follows it up to the next
\* await: the seek of the next frame (76-77, 106-111), or the end of the
\* loop (90-91).  recorder.stop() sets the recorder inactive and onstop
\* follows; on a recorder that an error has stopped it throws, and the catch
\* block (92-95) runs, whose reject comes after the one of onerror.
LoopTest(t, duration) ==
    IF t.currentTime <= duration
    THEN [t EXCEPT !.pc = "seekTo", !.seek = Min(t.currentTime, duration),
                   !.seeks = Append(@, Min(t.currentTime, duration)),
                   !.seeking = @ + 1]
    ELSE IF t.recorder = "recording"
    THEN [t EXCEPT !.pc = "recorderStop", !.pcts = Append(@, Num(100)),
                   !.recorder = "inactive"]
    ELSE [t EXCEPT !.pc = "end", !.pcts = Append(@, Num(100)), !.url = Revoke(@)]

\* line 75: currentTime += frameInterval
NextTime(currentTime, frameInterval) == currentTime + frameInterval

\* resolve or reject of the promise of removeWatermarkFromVideo: the first
\* call settles it and the caller goes on; a later call does nothing.
Settle(st, w, ok) ==
    IF st.run[w].promise # "pending" THEN st
    ELSE Settled(imageQueue,
                 [st EXCEPT !.run[w].promise = IF ok THEN "resolved" ELSE "rejected"],
                 w, ok, cards)

\* detectFPS with the later resolve taking the place of the first
FpsResolveLast(t, value, duration) ==
    IF t.fps.result # Undecided
    THEN [t EXCEPT !.fps.result = value, !.frameInterval = FrameInterval(value)]
    ELSE LoopTest([t EXCEPT !.fps.result = value,
                            !.frameInterval = FrameInterval(value)], duration)

\* detectFPS returns value (resolve of line 125, 133 or 139, or return of
\* line 146): the first time, the handler of loadedmetadata goes on with
\* lines 71-77 and the loop starts at currentTime = 0; a promise that is
\* resolved already keeps its value.
FpsResolve(t, value, duration) ==
    IF t.fps.result # Undecided THEN t
    ELSE LoopTest([t EXCEPT !.fps.result = value,
                            !.frameInterval = FrameInterval(value)], duration)

\* the video element reports its metadata (34-69, then detectFPS 119-137)
\* or an error (29-32).  An empty mimeType leaves the choice of the format
\* to MediaRecorder.  Where the video has no requestVideoFrameCallback,
\* detectFPS returns 30 at once; otherwise it registers cb, sets the timer
\* and starts the playback, which never is paused again.
VideoLoaded(w) ==
    /\ run[w].pc = "loadedmetadata"
    /\ LET file == item[run[w].job].file
           t == [run[w] EXCEPT !.mimeType = GetSupportedMimeType(browser.types),
                               !.recorder = "recording"]
       IN  IF file.decodable
           THEN /\ run' = [run EXCEPT ![w] =
                      IF ~browser.rvfc
                      THEN FpsResolve(t, Fps30, file.dur)
                      ELSE [t EXCEPT !.pc = "detectFPS",
                                     !.fps = [NoFPS EXCEPT !.timeout = "set", !.cb = TRUE],
                                     !.playing = file.playOk]]
                /\ UNCHANGED <<item, pq, processedCount>>
           ELSE Becomes(Settle([Globals EXCEPT !.run[w].pc = "end",
                                               !.run[w].url = Revoke(@)],
                               w, FALSE))
    /\ UNCHANGED <<script, imageQueue, cards, archive, browser>>

\* the value of now in the k-th call of cb: the first is after the time
\* origin, and the tenth comes ten times file.ivl later.  With file.ivl = 0
\* the clock of the runtime is so coarse that all ten calls read one value.
FrameTime(file, k) == 1 + ((k - 1) * 10 * file.ivl) \div 9

\* the video calls cb (126-135) for a frame it shows while it plays: before
\* the timer fires it does so file.cbs times.
FrameCallback(w) ==
    /\ run[w].fps.cb
    /\ run[w].playing
    /\ LET t == run[w]
           file == item[t.job].file
           now == FrameTime(file, t.fps.frames + 1)
           f == [t.fps EXCEPT !.startTime = IF @ = 0 THEN now ELSE @,
                              !.frames = @ + 1]
       IN  /\ t.fps.timeout = "set" => t.fps.frames < file.cbs
           /\ run' = [run EXCEPT ![w] =
                 IF f.frames < 10
                 THEN [t EXCEPT !.fps = f]
                 ELSE FpsResolve(
                        [t EXCEPT !.fps = [f EXCEPT !.cb = FALSE,
                                                    !.timeout = IF @ = "set" THEN "cleared" ELSE @]],
                        Rate(f.frames, now - f.startTime), file.dur)]
    /\ UNCHANGED <<script, imageQueue, item, processedCount, cards, pq, archive, browser>>

\* the timer of line 125 fires after 2000 ms, with fewer than 10 calls of
\* cb so far
FpsTimeout(w) ==
    /\ run[w].fps.timeout = "set"
    /\ LET t == run[w]
           file == item[t.job].file
       IN  /\ file.playOk
           /\ file.cbs < 10
           /\ t.fps.frames = file.cbs
           /\ run' = [run EXCEPT ![w] =
                 FpsResolve([t EXCEPT !.fps.timeout = "fired"], Fps30, file.dur)]
    /\ UNCHANGED <<script, imageQueue, item, processedCount, cards, pq, archive, browser>>

\* video.play() rejects (137-140)
PlayRejected(w) ==
    /\ run[w].pc = "detectFPS"
    /\ run[w].fps.timeout = "set"
    /\ LET t == run[w]
           file == item[t.job].file
       IN  /\ ~file.playOk
           /\ run' = [run EXCEPT ![w] =
                 FpsResolve([t EXCEPT !.fps.timeout = "cleared"], Fps30, file.dur)]
    /\ UNCHANGED <<script, imageQueue, item, processedCount, cards, pq, archive, browser>>

\* 'seeked' fires (77-79): the frame goes to the engine.  A run is followed
\* for MaxDur + 1 frames, as many as the longest video has at the shortest
\* positive frame interval, one tick.
Seeked(w) ==
    /\ run[w].pc = "seekTo"
    /\ run[w].calls <= MaxDur
    /\ run' = [run EXCEPT ![w].pc = "frameTransform", ![w].calls = @ + 1,
                          ![w].seeking = @ - 1]
    /\ UNCHANGED <<script, imageQueue, item, processedCount, cards, pq, archive, browser>>

\* FrameTransformed with a frame the engine fails on skipped instead of
\* failing the job
FrameTransformedSkipsFrame(w) ==
    /\ run[w].pc = "frameTransform"
    /\ LET t == run[w]
           file == item[t.job].file
       IN  run' = [run EXCEPT ![w] =
               LoopTest(IF TransformOk(file, t.calls)
                        THEN [t EXCEPT !.frames = @ + 1,
                                       !.submitted = Append(@, t.seek),
                                       !.pcts = Append(@, Progress(t.currentTime, file.dur)),
                                       !.currentTime = NextTime(@, t.frameInterval)]
                        ELSE [t EXCEPT !.currentTime = NextTime(@, t.frameInterval)],
                        file.dur)]
    /\ UNCHANGED <<script, imageQueue, item, processedCount, cards, pq, archive, browser>>

\* the engine settles for one frame: the frame is drawn and requested,
\* progress is reported and the loop goes on (80-91), or the catch block
\* revokes the URL and rejects (92-95), leaving the recorder as it is.
FrameTransformed(w) ==
    /\ run[w].pc = "frameTransform"
    /\ LET t == run[w]
           file == item[t.job].file
       IN  IF TransformOk(file, t.calls)
           THEN /\ run' = [run EXCEPT ![w] =
                    LoopTest([t EXCEPT !.frames = @ + 1,
                                       !.submitted = Append(@, t.seek),
                                       !.pcts = Append(@, Progress(t.currentTime, file.dur)),
                                       !.currentTime = NextTime(@, t.frameInterval)],
                             file.dur)]
                /\ UNCHANGED <<item, pq, processedCount>>
           ELSE Becomes(Settle([Globals EXCEPT !.run[w].pc = "end",
                                               !.run[w].url = Revoke(@)],
                               w, FALSE))
    /\ UNCHANGED <<script, imageQueue, cards, archive, browser>>

\* recorder.onstop (60-63) after recorder.stop(): the URL is revoked and
\* the promise resolves with the blob
RecorderStopped(w) ==
    /\ run[w].pc = "recorderStop"
    /\ Becomes(Settle([Globals EXCEPT !.run[w].pc = "end",
                                      !.run[w].url = Revoke(@)],
                      w, TRUE))
    /\ UNCHANGED <<script, imageQueue, cards, archive, browser>>

\* recorder.onerror (64-67): the encoder fails while it records and stops;
\* the URL is revoked and the promise rejected.  Nothing stops the handler
\* of loadedmetadata, which goes on where it is.
RecorderError(w) ==
    /\ run[w].recorder = "recording"
    /\ Becomes(Settle([Globals EXCEPT !.run[w].recorder = "inactive",
                                      !.run[w].url = Revoke(@)],
                      w, FALSE))
    /\ UNCHANGED <<script, imageQueue, cards, archive, browser>>

\* the video reports an error (29-32) after its metadata, while detectFPS
\* or the frame loop is under way: the URL is revoked and the promise
\* rejected.  Nothing stops the handler of loadedmetadata; whether a seek
\* still ends on a video in error is up to the runtime.  An error with the
\* URL revoked already changes nothing.
VideoError(w) ==
    /\ run[w].pc # "loadedmetadata"
    /\ run[w].url = "live"
    /\ Becomes(Settle([Globals EXCEPT !.run[w].url = Revoke(@)], w, FALSE))
    /\ UNCHANGED <<script, imageQueue, cards, archive, browser>>

---------------------------------------------------------------------------
(* Specifications *)

Tasks == 1..Len(run)

\* the page after init(): nothing dropped yet
Fresh ==
    /\ imageQueue = <<>>
    /\ item = <<>>
    /\ processedCount = 0
    /\ cards = {}
    /\ pq = <<>>
    /\ run = <<>>
    /\ archive = <<>>

Drop(files) == [op |-> "files", files |-> files]

\* A file: its name and type, whether its content decodes, the call on
\* which the engine fails (0: none), the duration of a video, and how its
\* playback goes in detectFPS: whether play() resolves, how many frames
\* are shown before the timer of 2000 ms fires (10: the tenth comes in
\* time), and a tenth of the time from the first to the tenth of them.
File(name, type, decodable, failAt, dur, ivl, playOk, cbs) ==
    [name |-> name, type |-> type, decodable |-> decodable, failAt |-> failAt,
     dur |-> dur, ivl |-> ivl, playOk |-> playOk, cbs |-> cbs]

\* the sets of types MediaRecorder.isTypeSupported may accept
TypeSets ==
    { {}, {"video/webm", "video/mp4"}, Range(CandidateTypes) }

\* the runtimes: without MediaRecorder nothing else is looked at
Browsers ==
    {b \in [mediaRecorder : BOOLEAN, types : TypeSets, rvfc : BOOLEAN] :
        ~b.mediaRecorder => (b.types = {} /\ ~b.rvfc)}

\* a runtime with MediaRecorder and all its types, where no video has
\* requestVideoFrameCallback
Plain ==
    [mediaRecorder |-> TRUE, types |-> Range(CandidateTypes), rvfc |-> FALSE]

\* One video on its own, in every runtime: every duration within the
\* bound, the engine failing on no frame or on one of the first two, and
\* every course of detectFPS.  Ten frames are shown in time only by a
\* video that is long enough for them, ten ticks at least; what a runtime
\* or a file never gets asked is left at one value.
InitVideo ==
    /\ Fresh
    /\ browser \in Browsers
    /\ \E dur \in 0..MaxDur, ivl \in 0..MaxIvl, failAt \in 0..2, ok \in BOOLEAN,
          playOk \in BOOLEAN, cbs \in 0..10 :
          /\ cbs = 10 => (10 <= dur /\ 10 * ivl <= dur)
          /\ cbs < 10 => ivl = 1
          /\ ~playOk => cbs = 0
          /\ ~(browser.rvfc /\ ok) => (playOk /\ cbs = 0)
          /\ ~browser.mediaRecorder => (ok /\ failAt = 0 /\ dur = 0)
          /\ script = <<Drop(<<File(<<"v", ".", "mp4">>, "video", ok, failAt, dur, ivl,
                                    playOk, cbs)>>)>>

NextVideo ==
    \/ HandleFiles
    \/ \E w \in Tasks : VideoLoaded(w)
    \/ \E w \in Tasks : FrameCallback(w)
    \/ \E w \in Tasks : FpsTimeout(w)
    \/ \E w \in Tasks : PlayRejected(w)
    \/ \E w \in Tasks : Seeked(w)
    \/ \E w \in Tasks : FrameTransformed(w)
    \/ \E w \in Tasks : RecorderStopped(w)
    \/ \E w \in Tasks : RecorderError(w)
    \/ \E w \in Tasks : VideoError(w)

SpecVideo == InitVideo /\ [][NextVideo]_vars

\* The files of the batches: images and videos of one frame at the rate
\* 30, sound ones, ones that do not decode and ones the engine fails on (a
\* video of two frames on the second), and a file that handleFiles filters
\* out.
Image(name, decodable, failAt) ==
    File(name, "image", decodable, failAt, 0, 1, TRUE, 0)
Video(name, decodable, failAt) ==
    File(name, "video", decodable, failAt, IF failAt = 2 THEN DefaultIvl ELSE 1, 1,
         TRUE, 0)

SoundFiles ==
    { Image(<<"a", ".", "png">>, TRUE, 0),
      Video(<<"a", ".", "mp4">>, TRUE, 0) }

BadFiles ==
    { Image(<<"b", ".", "png">>, FALSE, 0),
      Image(<<"c", ".", "png">>, TRUE, 1),
      Video(<<"b", ".", "mp4">>, FALSE, 0),
      Video(<<"c", ".", "mp4">>, TRUE, 2) }

OtherFiles ==
    { Image(<<"a", ".", "jpg">>, TRUE, 0),
      File(<<"notes", ".", "txt">>, "other", TRUE, 0, 0, 1, TRUE, 0) }

Pool == SoundFiles \cup BadFiles \cup OtherFiles

MaxFiles == 4        \* most files in one drop

Batches(files, n) == UNION {[1..k -> files] : k \in 1..n}

\* batches of n files with at most one bad file among sound ones
OneBad(n) ==
    {b \in [1..n -> SoundFiles \cup BadFiles] :
        Cardinality({k \in 1..n : b[k] \in BadFiles}) <= 1}

\* What the user does: a drop of up to two files of any kind, then
\* possibly a download of the archive, a reset or a second drop of up to
\* two sound files; or a drop of MaxFiles files of which at most one is
\* bad, then possibly a download of the archive.
Scripts ==
    LET any == {Drop(b) : b \in Batches(Pool, 2)}
        full == {Drop(b) : b \in OneBad(MaxFiles)}
        download == [op |-> "downloadAll"]
        after == {download, [op |-> "reset"]}
                    \cup {Drop(b) : b \in Batches(SoundFiles, 2)}
    IN  {<<f>> : f \in any \cup full}
           \cup {<<f, g>> : f \in any, g \in after}
           \cup {<<f, download>> : f \in full}

Init ==
    /\ Fresh
    /\ browser = Plain
    /\ script \in Scripts

\* A batch that replaces one in flight: a drop of up to two sound files,
\* then a download of the archive, a reset or a second drop of up to
\* MaxFiles sound files.
ReplaceScripts ==
    LET first == {Drop(b) : b \in Batches(SoundFiles, 2)}
        after == {[op |-> "downloadAll"], [op |-> "reset"]}
                    \cup {Drop(b) : b \in Batches(SoundFiles, MaxFiles)}
    IN  {<<f, g>> : f \in first, g \in after}

InitReplace ==
    /\ Fresh
    /\ browser = Plain
    /\ script \in ReplaceScripts

Next ==
    \/ HandleFiles
    \/ Reset
    \/ DownloadAll
    \/ \E p \in 1..Len(pq) : \E id \in pq[p].loading : QueueImageLoaded(p, id)
    \/ \E w \in Tasks : SingleImageLoaded(w)
    \/ \E w \in Tasks : ImageTransformed(w)
    \/ \E w \in Tasks : VideoLoaded(w)
    \/ \E w \in Tasks : Seeked(w)
    \/ \E w \in Tasks : FrameTransformed(w)
    \/ \E w \in Tasks : RecorderStopped(w)

Spec == Init /\ [][Next]_vars

SpecReplace == InitReplace /\ [][Next]_vars

\* sound videos of one frame and of two at the rate 30
FaultVideos ==
    {File(<<n, ".", "mp4">>, "video", TRUE, 0, dur, 1, TRUE, 0) :
        n \in {"a", "b"}, dur \in {1, DefaultIvl}}

\* One drop of a sound video, which processSingle takes, or of two, which
\* processQueue takes, with an encoder and a video element that may fail
\* at any time.
InitFault ==
    /\ Fresh
    /\ browser = Plain
    /\ script \in {<<Drop(b)>> : b \in Batches(FaultVideos, 2)}

NextFault ==
    \/ HandleFiles
    \/ \E w \in Tasks : VideoLoaded(w)
    \/ \E w \in Tasks : Seeked(w)
    \/ \E w \in Tasks : FrameTransformed(w)
    \/ \E w \in Tasks : RecorderStopped(w)
    \/ \E w \in Tasks : RecorderError(w)
    \/ \E w \in Tasks : VideoError(w)

SpecFault == InitFault /\ [][NextFault]_vars

---------------------------------------------------------------------------
(* Claims *)

Jobs == 1..Len(item)

Terminal(id) == item[id].status \in {"completed", "error"}

\* nothing is in flight: every task has ended and no image is loading
Quiet ==
    /\ \A w \in Tasks : run[w].pc = "end"
    /\ \A p \in 1..Len(pq) : pq[p].loading = {}

\* the first batch is the current one, and processQueue ran for it
FirstBatch ==
    /\ Len(pq) = 1
    /\ Len(imageQueue) = Len(item)

\* the job's own work fails: its content does not decode, or the engine
\* fails on it
Fails(file) == ~file.decodable \/ file.failAt > 0

\* C1: at most 3 jobs of the current batch are in 'processing' at a time.
C1_AtMostThreeProcessing ==
    Cardinality({id \in Range(imageQueue) : item[id].status = "processing"})
        <= concurrency

\* C2: the values item.status takes, job by job, are a prefix of
\* pending, processing, completed or of pending, processing, error.
C2_StatusSequence ==
    \A id \in Jobs :
        \E last \in {"completed", "error"} :
            \E n \in 1..3 :
                item[id].statusLog = SubSeq(<<"pending", "processing", last>>, 1, n)

\* C3: when the batch is over, exactly the jobs whose own work fails are in
\* 'error' and all the others are 'completed'.
C3_FailureIsolated ==
    (FirstBatch /\ Quiet) =>
        \A id \in Range(imageQueue) :
            item[id].status = IF Fails(item[id].file) THEN "error" ELSE "completed"

\* C4: when processQueue has finished the batch, processedCount is the
\* number of its jobs that reached 'completed' or 'error'.
C4_CountsEveryTerminal ==
    (FirstBatch /\ pq[1].pc = "done") =>
        processedCount = Cardinality({id \in Range(imageQueue) : Terminal(id)})

\* the runs of removeWatermarkFromVideo whose promise resolved
Resolved == {w \in Tasks : run[w].promise = "resolved"}

Duration(w) == item[run[w].job].file.dur
Interval(w) == run[w].frameInterval

\* C5: for every run that resolves, every value given to onProgress is an
\* integer in 0..100, none is below the one before it and the last is 100.
C5_ProgressSequence ==
    \A w \in Resolved :
        LET pcts == run[w].pcts
        IN  /\ \A k \in 1..Len(pcts) : ~pcts[k].isNaN /\ pcts[k].n \in 0..100
            /\ \A k \in 1..(Len(pcts) - 1) : pcts[k].n <= pcts[k + 1].n
            /\ pcts # <<>>
            /\ pcts[Len(pcts)] = Num(100)

\* C6: no seek goes beyond the duration D, and for D > 0 the last frame
\* sought and submitted is the one at D.
C6_LastFrameAtDuration ==
    /\ \A w \in Tasks : run[w].seek <= Duration(w)
    /\ \A w \in Resolved : Duration(w) > 0 => run[w].seek = Duration(w)

\* ceil(a / b) for a >= 0, b > 0
CeilDiv(a, b) == (a + b - 1) \div b

\* C7: a run that resolves has sampled ceil(D * F) + 1 frames, each with
\* one seek, one transform and one requestFrame.
C7_FrameCount ==
    \A w \in Resolved :
        /\ run[w].frames = CeilDiv(Duration(w), Interval(w)) + 1
        /\ run[w].calls = run[w].frames

\* the step of downloadAll()
DownloadAllStep ==
    /\ script # <<>>
    /\ Head(script).op = "downloadAll"
    /\ script' = Tail(script)

\* no two jobs of the queue come from files of the same name
NamesDistinct ==
    \A id \in Range(imageQueue) : \A other \in Range(imageQueue) :
        id # other => item[id].file.name # item[other].file.name

\* C8: whatever the (distinct) names of the files, the archive downloadAll builds has as many entries as the queue has
\* completed jobs, each under the output name of a completed job.
C8_OneEntryPerCompleted ==
    [][DownloadAllStep =>
        LET completed == {id \in Range(imageQueue) : IsCompleted(id)}
        IN  (completed # {} /\ NamesDistinct) =>
              /\ Cardinality(DOMAIN archive') = Cardinality(completed)
              /\ DOMAIN archive' = {OutputName(item[id]) : id \in completed}
              /\ \A f \in DOMAIN archive' : archive'[f] \in completed]_vars

\* C9: a job of the queue has an output blob if and only if its status is
\* 'completed'.
C9_BlobIffCompleted ==
    \A id \in Range(imageQueue) :
        item[id].processedBlob <=> item[id].status = "completed"

\* the runs of the video pipeline in which the engine has failed on a
\* frame: the failing call has been made and has settled
EngineFailed ==
    {w \in Tasks :
        LET failAt == item[run[w].job].file.failAt
        IN  /\ item[run[w].job].isVideo
            /\ failAt >= 1
            /\ \/ run[w].calls > failAt
               \/ run[w].calls = failAt /\ run[w].pc # "frameTransform"}

C11_FramesInOrder ==
    \A w \in Tasks :
        LET t == run[w]
            n == Len(t.submitted)
        IN  /\ \A k \in 1..(n - 1) : t.submitted[k] < t.submitted[k + 1]
            /\ t.seeking \in {0, 1}
            /\ Len(t.seeks) \in {n, n + 1}
            /\ t.submitted = SubSeq(t.seeks, 1, n)
            /\ t.seeking = 1 =>
                  /\ t.pc = "seekTo"
                  /\ Len(t.seeks) = n + 1
                  /\ t.calls = n
                  /\ t.frames = n

\* the terminal statuses a job has been given, as places of its statusLog
TerminalSteps(id) ==
    {k \in DOMAIN item[id].statusLog : item[id].statusLog[k] \in {"completed", "error"}}

\* C12: a job that was dispatched, by processQueue or by processSingle, and
\* whose transform or video pipeline has settled, has been given exactly
\* one terminal status.
C12_DispatchedEndsTerminal ==
    \A w \in Tasks :
        run[w].pc = "end" => Cardinality(TerminalSteps(run[w].job)) = 1

\* the chunk of the job at place j of the queue: places 1-3 are chunk 0
ChunkOf(j) == (j - 1) \div concurrency

\* C13: no job of a chunk of the current queue is in 'processing' while a
\* job of the chunk before it is 'pending' or 'processing'.
C13_ChunkBarrier ==
    \A j \in 1..Len(imageQueue) : \A m \in 1..Len(imageQueue) :
        (/\ ChunkOf(j) = ChunkOf(m) + 1
         /\ item[imageQueue[j]].status = "processing")
            => Terminal(imageQueue[m])

\* the tasks that work, or have worked, on job id
TasksOf(id) == {w \in Tasks : run[w].job = id}

\* C14: a job is set to 'processing' at most once, and its transform or
\* video pipeline is started at most once.
C14_ClaimedOnce ==
    \A id \in Jobs :
        /\ Cardinality({k \in DOMAIN item[id].statusLog :
                           item[id].statusLog[k] = "processing"}) <= 1
        /\ Cardinality(TasksOf(id)) <= 1

\* the runs of removeWatermarkFromVideo in which detectFPS has returned
FpsReturned == {w \in Tasks : run[w].fps.result # Undecided}

\* C15: once detectFPS has returned, by whichever path, the video does not
\* play: no seek of the frame loop is issued to a playing video.
C15_PausedBeforeLoop ==
    \A w \in FpsReturned : ~run[w].playing

\* what C16 says detectFPS returns for a file: 30 without
\* requestVideoFrameCallback, with play() rejected or with fewer than 10
\* callbacks when the timer fires, and otherwise 10 over the time between
\* the first and the tenth callback
ExpectedFps(file) ==
    IF ~browser.rvfc \/ ~file.playOk \/ file.cbs < 10
    THEN Fps30
    ELSE Rate(10, FrameTime(file, 10) - FrameTime(file, 1))

\* C16: once detectFPS has returned, its result is the one the path taken
\* decides, and it stays that whatever callback or timer comes later; the
\* frame interval of the loop is the inverse of it.
C16_FpsDecidedOnce ==
    \A w \in FpsReturned :
        /\ run[w].fps.result = ExpectedFps(item[run[w].job].file)
        /\ run[w].frameInterval * run[w].fps.result.num = run[w].fps.result.den

\* the timer fired after 9 callbacks and the tenth callback came later:
\* the result is still 30
C16_Witness ==
    \E w \in FpsReturned :
        /\ item[run[w].job].file.cbs = 9
        /\ run[w].fps.timeout = "fired"
        /\ run[w].fps.frames = 10
        /\ run[w].fps.startTime > 0
        /\ run[w].fps.result = Fps30

\* the jobs reset() has taken out of the queue
DiscardedByReset == {id \in Jobs : item[id].discarded = "reset"}

\* C17: no job that reset() discarded holds an object URL that is not
\* revoked, be it one created before the reset or one its work in flight
\* creates afterwards.
C17_ResetRevokesHandles ==
    \A id \in DiscardedByReset :
        /\ item[id].originalUrl # "live"
        /\ item[id].processedUrl # "live"

\* the step in which the work in flight on a job ends after reset() or
\* handleFiles() has taken the job out of the queue
OrphanCompletes ==
    \E w \in Tasks :
        /\ item[run[w].job].discarded # "no"
        /\ run[w].pc # "end"
        /\ run'[w].pc = "end"

\* C18: the completion of work in flight on a job of an abandoned batch
\* changes neither processedCount nor any job of the current queue, and
\* leaves processedCount at most imageQueue.length.
C18_OrphanDiscarded ==
    [][OrphanCompletes =>
        /\ processedCount' = processedCount
        /\ \A id \in Range(imageQueue) : item'[id] = item[id]
        /\ processedCount' <= Len(imageQueue')]_vars

\* C19: when the promise of removeWatermarkFromVideo has settled, the
\* object URL of the source is revoked, and when it was rejected the
\* recorder is not recording.
C19_SettledReleases ==
    \A w \in Tasks :
        run[w].promise # "pending" =>
            /\ run[w].url # "live"
            /\ run[w].promise = "rejected" => run[w].recorder # "recording"

\* the runtime cannot encode: there is no MediaRecorder, or it supports
\* none of the candidate types
Unsupported ==
    \/ ~browser.mediaRecorder
    \/ browser.types \cap Range(CandidateTypes) = {}

\* C20: in a runtime that cannot encode, every call of
\* removeWatermarkFromVideo is rejected without an object URL, a recorder
\* or a frame processed, and the job gets no output blob.
C20_UnsupportedFailsFirst ==
    Unsupported =>
        \A w \in Tasks :
            /\ run[w].promise = "rejected"
            /\ run[w].url = "none"
            /\ run[w].mimeType = "none"
            /\ run[w].recorder = "inactive"
            /\ run[w].calls = 0
            /\ ~item[run[w].job].processedBlob

\* C21: whatever detectFPS returns, the tenth callback at the timestamp of
\* the first included, the sample time of the frame loop grows with every
\* iteration, so that it passes the duration after finitely many of them
\* and the promise settles.
C21_LoopAdvances ==
    [][\A w \in Tasks :
          (run[w].pc = "frameTransform" /\ run'[w].pc = "seekTo")
              => run'[w].currentTime > run[w].currentTime]_vars

\* C22: once the promise of removeWatermarkFromVideo is rejected, its
\* frame loop seeks no frame, calls the engine for none and reports no
\* progress any more; and a job of processQueue that is in 'error' gets no
\* progress update afterwards.
C22_RejectedLoopStops ==
    [][\A w \in Tasks :
          /\ run[w].promise = "rejected" =>
                /\ run'[w].seeks = run[w].seeks
                /\ run'[w].calls = run[w].calls
                /\ run'[w].pcts = run[w].pcts
          /\ (run[w].caller > 0 /\ item[run[w].job].status = "error") =>
                run'[w].pcts = run[w].pcts]_vars

=============================================================================
